---- MODULE Spec2Model ----
(***************************************************************************)
(* Verification model of the JamesAvisa notification API and app.          *)
(*                                                                         *)
(*   SpecSend : sendWhatsApp (services/whatsappService.js), one call, one   *)
(*              step per awaited gateway request.                          *)
(*   SpecReg  : POST /register-resident (routes), concurrent requests, one  *)
(*              step per awaited backend call.                             *)
(*   SpecComplete : POST /complete-profile (routes), concurrent requests.   *)
(*   SpecNotify : NotificationService (services/notificationService.ts),    *)
(*              callback registration and the fan-out of change events.    *)
(*   SpecVote : fetchPolls and handleVote (app/admin/index.tsx), one user   *)
(*              and one poll on two screens.                               *)
(*   SpecListen : startListening and stopListening of NotificationService, *)
(*              with the status callbacks of the realtime channels.        *)
(*   SpecCard : the response handlers of the notification card component.  *)
(*                                                                         *)
(* Strings are sequences of one-character strings.                         *)
(***************************************************************************)
EXTENDS Naturals, Sequences, FiniteSets

VARIABLES
    \* ---- sendWhatsApp({ to, message }) ----
    to,                 \* the `to` argument
    WHATSAPP_DISABLED,  \* process.env.WHATSAPP_DISABLED === 'true'
    WHATSAPP_SKIP_NUMBER_CHECK, \* process.env.WHATSAPP_SKIP_NUMBER_CHECK === 'true'
    pc,                 \* position of the call
    formattedNumber,    \* local `formattedNumber` (<<>> until assigned)
    requests,           \* HTTP requests issued to the gateway, in order
    result,             \* what the call returned or threw
    \* ---- POST /register-resident ----
    profiles,           \* rows of table profiles
    authUsers,          \* users of the auth service
    tempPasswords,      \* profile ids with a row in temporary_passwords
    req,                \* per handler instance: the request in progress
    started,            \* number of requests received so far
    \* ---- POST /complete-profile ----
    cpProfiles,         \* table profiles: id -> [cpf, profile_complete]
    cpPassword,         \* auth service: user id -> password in effect
    cpTempUsed,         \* temporary_passwords: profile id -> used
    cpReq,              \* per handler instance: the request in progress
    cpStarted,          \* number of requests received so far
    \* ---- NotificationService ----
    callbacks,          \* this.callbacks, in registration order
    deliveries,         \* change events handed to handleNotificationChange
    fanouts,            \* fan-outs performed, in the order they ran
    lastFanout,         \* the latest fan-out: the list it found, the calls it made
    \* ---- NotificationService: the realtime channel ----
    channel,            \* this.channel: the channel held (0 for null)
    isConnected,        \* this.isConnected
    channels,           \* channels created so far, each with its state
    stopping,           \* channel a stopListening call is removing (0 for none)
    lastStart,          \* what the latest startListening call did
    stopped,            \* stopListening completed and startListening not called since
    \* ---- AvisosTab: polls of one user, on each screen where it is open ----
    poll_votes,         \* rows of table poll_votes of the user in the poll
    pollState,          \* the poll in table polls: active, expired or inactive
    uniqueVotes,        \* whether the store refuses a second vote of a user in a poll
    polls,              \* per screen: state `polls` (the poll as cached)
    votingPollId,       \* per screen: state `votingPollId`
    voteCall,           \* per screen: the handleVote call in progress
    voteCalls,          \* number of handleVote calls made so far
    \* ---- PendingNotificationCard ----
    entry_type,         \* notification.entry_type
    responding,         \* state `responding`
    showRejectModal,    \* state `showRejectModal`
    showDeliveryModal,  \* state `showDeliveryModal`
    rejectReason,       \* state `rejectReason`
    pending,            \* the onRespond call that has not settled, or "none"
    attempts            \* number of onRespond calls made so far

waVars == <<to, WHATSAPP_DISABLED, WHATSAPP_SKIP_NUMBER_CHECK, pc,
            formattedNumber, requests, result>>
regVars == <<profiles, authUsers, tempPasswords, req, started>>
cpVars == <<cpProfiles, cpPassword, cpTempUsed, cpReq, cpStarted>>
nsVars == <<callbacks, deliveries, fanouts, lastFanout>>
chVars == <<channel, isConnected, channels, stopping, lastStart, stopped>>
voteVars == <<poll_votes, pollState, uniqueVotes, polls, votingPollId,
              voteCall, voteCalls>>
cardVars == <<entry_type, responding, showRejectModal, showDeliveryModal,
              rejectReason, pending, attempts>>
vars == <<waVars, regVars, cpVars, nsVars, chVars, voteVars, cardVars>>

\* what a step of one subsystem leaves alone in the others
othersOfSend == <<regVars, cpVars, nsVars, chVars, voteVars, cardVars>>
othersOfReg == <<waVars, cpVars, nsVars, chVars, voteVars, cardVars>>
othersOfComplete == <<waVars, regVars, nsVars, chVars, voteVars, cardVars>>
othersOfNotify == <<waVars, regVars, cpVars, chVars, voteVars, cardVars>>
othersOfListen == <<waVars, regVars, cpVars, nsVars, voteVars, cardVars>>
othersOfVote == <<waVars, regVars, cpVars, nsVars, chVars, cardVars>>
othersOfCard == <<waVars, regVars, cpVars, nsVars, chVars, voteVars>>

-----------------------------------------------------------------------------
(* Bounds                                                                  *)

\* longest digits-only input that is enumerated
MaxLen == 14
\* requests to POST /register-resident that are received in one behaviour
MaxRequests == 2
\* handler instances of POST /register-resident that run concurrently
NumHandlers == 2
\* rows of table profiles that POST /complete-profile can address
NumProfiles == 2
\* change events delivered to the NotificationService in one behaviour
MaxEvents == 2
\* longest list of registered callbacks
MaxCallbacks == 2
\* realtime channels created in one behaviour
MaxChannels == 3
\* handleVote calls that get past the votingPollId guard in one behaviour
MaxVoteCalls == 3
\* onRespond calls made from one notification card
MaxAttempts == 2
\* number of leading digits the formatter inspects (substring(4, 5) is the
\* last): these range over HeadDigits, the rest are filler
InspectedDigits == 5

-----------------------------------------------------------------------------
(* Characters and strings                                                  *)

DigitOf == <<"0", "1", "2", "3", "4", "5", "6", "7", "8", "9">>
DigitChars == {DigitOf[i] : i \in 1..10}

Min(a, b) == IF a < b THEN a ELSE b

\* mutant: both indexes taken one position too far
substring_OffByOne(s, a, b) == SubSeq(s, a + 2, Min(b + 1, Len(s)))

\* JavaScript s.substring(a, b) for 0 <= a <= b, end clamped to the length
substring(s, a, b) == SubSeq(s, a + 1, Min(b, Len(s)))

\* JavaScript s.startsWith(p)
startsWith(s, p) == Len(s) >= Len(p) /\ SubSeq(s, 1, Len(p)) = p

VALID_DDDS == {
    <<"1","1">>, <<"1","2">>, <<"1","3">>, <<"1","4">>, <<"1","5">>, <<"1","6">>,
    <<"1","7">>, <<"1","8">>, <<"1","9">>, <<"2","1">>, <<"2","2">>, <<"2","4">>,
    <<"2","7">>, <<"2","8">>, <<"3","1">>, <<"3","2">>, <<"3","3">>, <<"3","4">>,
    <<"3","5">>, <<"3","7">>, <<"3","8">>, <<"4","1">>, <<"4","2">>, <<"4","3">>,
    <<"4","4">>, <<"4","5">>, <<"4","6">>, <<"4","7">>, <<"4","8">>, <<"4","9">>,
    <<"5","1">>, <<"5","3">>, <<"5","4">>, <<"5","5">>, <<"6","1">>, <<"6","2">>,
    <<"6","4">>, <<"6","3">>, <<"6","5">>, <<"6","6">>, <<"6","7">>, <<"6","8">>,
    <<"6","9">>, <<"7","1">>, <<"7","3">>, <<"7","4">>, <<"7","5">>, <<"7","7">>,
    <<"7","9">>, <<"8","1">>, <<"8","7">>, <<"8","2">>, <<"8","3">>, <<"8","4">>,
    <<"8","5">>, <<"8","8">>, <<"8","6">>, <<"8","9">>, <<"9","1">>, <<"9","3">>,
    <<"9","4">>, <<"9","2">>, <<"9","7">>, <<"9","5">>, <<"9","6">>, <<"9","8">>,
    <<"9","9">> }

CountryCode == <<"5", "5">>

-----------------------------------------------------------------------------
(* The number-formatting step of sendWhatsApp                              *)

\* mutant: only blanks and hyphens are removed
CleanNumber_KeepsParens(s) == SelectSeq(s, LAMBDA c : c \notin {" ", "-"})

\* mutant: a leading trunk zero is dropped with the non-digits
CleanNumber_DropsLeadingZero(s) ==
    LET d == SelectSeq(s, LAMBDA c : c \in DigitChars)
    IN  IF d # <<>> /\ d[1] = "0" THEN SubSeq(d, 2, Len(d)) ELSE d

\* to.replace(/[^\d]/g, '')
CleanNumber(s) == SelectSeq(s, LAMBDA c : c \in DigitChars)

Accept(n) == [ok |-> TRUE, number |-> n, error |-> "none"]
Reject(e) == [ok |-> FALSE, number |-> <<>>, error |-> e]

\* mutant: the third digit is not checked
Branch11_NoNinthCheck(cleanNumber) ==
    IF substring(cleanNumber, 0, 2) \notin VALID_DDDS THEN Reject("DDD invalido")
    ELSE Accept(CountryCode \o cleanNumber)

\* the 11-digit branch: DDD + 9 + 8 digits
Branch11(cleanNumber) ==
    LET ddd == substring(cleanNumber, 0, 2)
        ninthDigit == substring(cleanNumber, 2, 3)
    IN  IF ddd \notin VALID_DDDS THEN Reject("DDD invalido")
        ELSE IF ninthDigit = <<"9">> THEN Accept(CountryCode \o cleanNumber)
        ELSE Reject("Numero celular invalido")

\* the 10-digit branch: DDD + 8 digits
Branch10(cleanNumber) ==
    LET ddd == substring(cleanNumber, 0, 2)
    IN  IF ddd \notin VALID_DDDS THEN Reject("DDD invalido")
        ELSE Accept(CountryCode \o cleanNumber)

\* mutant: the fifth digit is not checked
Branch13_NoNinthCheck(cleanNumber) ==
    IF substring(cleanNumber, 2, 4) \notin VALID_DDDS THEN Reject("DDD invalido")
    ELSE Accept(cleanNumber)

\* the 13-digit branch: 55 + DDD + 9 + 8 digits
Branch13(cleanNumber) ==
    LET ddd == substring(cleanNumber, 2, 4)
        possibleNinthDigit == substring(cleanNumber, 4, 5)
    IN  IF ddd \notin VALID_DDDS THEN Reject("DDD invalido")
        ELSE IF Len(cleanNumber) = 13
                /\ possibleNinthDigit # <<"9">>
                /\ Len(cleanNumber) # 12
             THEN Reject("Numero invalido: quinto digito")
        ELSE Accept(cleanNumber)

\* mutant: the mobile marker is demanded of fixed lines too
Branch12_RequiresNine(cleanNumber) ==
    IF substring(cleanNumber, 2, 4) \notin VALID_DDDS THEN Reject("DDD invalido")
    ELSE IF substring(cleanNumber, 4, 5) # <<"9">>
         THEN Reject("Numero invalido: quinto digito")
    ELSE Accept(cleanNumber)

\* mutant: the DDD is not checked
Branch12_NoDddCheck(cleanNumber) == Accept(cleanNumber)

\* the 12-digit branch: 55 + DDD + 8 digits
Branch12(cleanNumber) ==
    LET ddd == substring(cleanNumber, 2, 4)
    IN  IF ddd \notin VALID_DDDS THEN Reject("DDD invalido")
        ELSE Accept(cleanNumber)

\* the if / else-if chain over the length of cleanNumber
FormatBranches(cleanNumber) ==
    IF Len(cleanNumber) = 11 THEN Branch11(cleanNumber)
    ELSE IF Len(cleanNumber) = 10 THEN Branch10(cleanNumber)
    ELSE IF Len(cleanNumber) = 13 /\ startsWith(cleanNumber, CountryCode)
         THEN Branch13(cleanNumber)
    ELSE IF Len(cleanNumber) = 12 /\ startsWith(cleanNumber, CountryCode)
         THEN Branch12(cleanNumber)
    ELSE Reject("Formato de numero nao suportado")

\* the final validation of the formatted number
FinalValidation(number) ==
    IF (Len(number) # 12 /\ Len(number) # 13) \/ ~startsWith(number, CountryCode)
    THEN Reject("Numero invalido apos formatacao")
    ELSE IF substring(number, 2, 4) \notin VALID_DDDS
    THEN Reject("DDD invalido apos formatacao")
    ELSE Accept(number)

\* cleaning, the branches, then the final validation
FormatNumber(s) ==
    LET b == FormatBranches(CleanNumber(s))
    IN  IF b.ok THEN FinalValidation(b.number) ELSE b

-----------------------------------------------------------------------------
(* Inputs of sendWhatsApp                                                  *)

HeadDigits == {"0", "1", "5", "9"}

\* the digits after the first InspectedDigits: 9, 2, 5, 8, 1, 4, 7, 0, 3, 6, ...
Filler(k) == [i \in 1..k |-> DigitOf[((3 * i + 6) % 10) + 1]]

DigitInputs ==
    UNION { { h \o Filler(len - Min(len, InspectedDigits)) :
                h \in [1..Min(len, InspectedDigits) -> HeadDigits] } : len \in 0..MaxLen }

\* the same digits written as "(DD) DDDD-DDDD"
Masked(d) ==
    <<"(">> \o substring(d, 0, 2) \o <<")", " ">>
            \o substring(d, 2, 6) \o <<"-">> \o substring(d, 6, Len(d))

Inputs == DigitInputs \cup {Masked(d) : d \in DigitInputs}

-----------------------------------------------------------------------------
(* sendWhatsApp: the gateway and the steps of one call                     *)

\* what GET instance/connectionState can answer; "failed" is a rejected request
StatusOutcomes == {"open", "connecting", "close", "failed"}

\* what POST chat/whatsappNumbers can answer
LookupOutcomes == {"exists", "not_exists", "not_listed", "not_array", "failed"}

\* what one POST message/sendText can answer: a 2xx response with or without
\* data.key, an HTTP error status (by shape of the body), or no response at all
SendResponses == {"2xx_key", "2xx_no_key"}
SendHttpErrors == {"401", "404", "400_exists_false", "400_array", "400_message",
                   "400_plain", "500_connection_closed", "500", "503"}
SendNetworkErrors == {"ECONNREFUSED", "ETIMEDOUT"}
SendOutcomes == SendResponses \cup SendHttpErrors \cup SendNetworkErrors

\* axios.post rejects on an HTTP error status and on a network error
PostThrows(o) == o \in SendHttpErrors \cup SendNetworkErrors

NoResult == [kind |-> "none", code |-> "none"]
Returned(id) == [kind |-> "ok", code |-> id]
Threw(e) == [kind |-> "error", code |-> e]

\* one exchange with the gateway: the request and how it was answered
Request(endpoint, schema, number, outcome) ==
    [endpoint |-> endpoint, schema |-> schema, number |-> number,
     outcome |-> outcome]

\* mutant: an instance that is still connecting counts as connected
checkInstanceStatus_AcceptsConnecting(o) ==
    [connected |-> (o \in {"open", "connecting"})]

\* checkInstanceStatus(): connected only for state 'open'
checkInstanceStatus(o) == [connected |-> (o = "open")]

\* mutant: a failed lookup counts as "does not exist"
checkWhatsAppNumber_FailClosed(o) == [exists |-> (o = "exists")]

\* checkWhatsAppNumber(): exists as reported, false when the answer does not
\* list the number or is no array, true when the request failed
checkWhatsAppNumber(o) ==
    [exists |-> CASE o = "exists" -> TRUE
                  [] o = "failed" -> TRUE
                  [] OTHER -> FALSE]

\* mutant: status 404 has no case of its own
ClassifySendError_No404Case(o) ==
    CASE o = "401" -> "API Key invalida"
      [] o = "400_exists_false" -> "Numero nao possui WhatsApp ativo (400)"
      [] o = "400_array" -> "Erro de validacao Evolution API"
      [] o = "400_message" -> "Dados invalidos"
      [] o = "400_plain" -> "Numero ou formato de mensagem invalido"
      [] o = "500_connection_closed" -> "WhatsApp desconectado"
      [] o = "500" -> "Erro interno da Evolution API"
      [] o \in SendHttpErrors -> "Erro Evolution API (status)"
      [] o = "ECONNREFUSED" -> "Evolution API nao esta acessivel"
      [] o = "2xx_no_key" -> "Erro de conexao: Resposta invalida da Evolution API"
      [] OTHER -> "Erro de conexao com Evolution API"

\* the outer catch: the error thrown for a failed send, by class
ClassifySendError(o) ==
    CASE o = "401" -> "API Key invalida"
      [] o = "404" -> "Instancia nao encontrada"
      [] o = "400_exists_false" -> "Numero nao possui WhatsApp ativo (400)"
      [] o = "400_array" -> "Erro de validacao Evolution API"
      [] o = "400_message" -> "Dados invalidos"
      [] o = "400_plain" -> "Numero ou formato de mensagem invalido"
      [] o = "500_connection_closed" -> "WhatsApp desconectado"
      [] o = "500" -> "Erro interno da Evolution API"
      [] o \in SendHttpErrors -> "Erro Evolution API (status)"
      [] o = "ECONNREFUSED" -> "Evolution API nao esta acessivel"
      [] o = "2xx_no_key" -> "Erro de conexao: Resposta invalida da Evolution API"
      [] OTHER -> "Erro de conexao com Evolution API"

\* the response check after the send attempts, and the outer catch
SendResult(o) ==
    IF o = "2xx_key" THEN Returned("key.id") ELSE Threw(ClassifySendError(o))

\* mutant: the alternate payload is always sent
RetriesAfter_Always(o) == TRUE

\* mutant: the alternate payload is never sent
RetriesAfter_Never(o) == FALSE

\* whether a failed first attempt is followed by the alternate payload
RetriesAfter(o) == PostThrows(o)

WaInit ==
    /\ to \in Inputs
    /\ WHATSAPP_DISABLED \in BOOLEAN
    /\ WHATSAPP_SKIP_NUMBER_CHECK \in BOOLEAN
    /\ pc = "start"
    /\ formattedNumber = <<>>
    /\ requests = <<>>
    /\ result = NoResult

WaIdle ==
    /\ to = <<>>
    /\ WHATSAPP_DISABLED = FALSE
    /\ WHATSAPP_SKIP_NUMBER_CHECK = FALSE
    /\ pc = "idle"
    /\ formattedNumber = <<>>
    /\ requests = <<>>
    /\ result = NoResult

\* WHATSAPP_DISABLED: simulated success
Disabled ==
    /\ pc = "start"
    /\ WHATSAPP_DISABLED
    /\ result' = Returned("disabled")
    /\ pc' = "done"
    /\ UNCHANGED <<to, WHATSAPP_DISABLED, WHATSAPP_SKIP_NUMBER_CHECK,
                   formattedNumber, requests, othersOfSend>>

\* mutant: the status check does not depend on WHATSAPP_DISABLED
CheckStatus_IgnoresDisabled ==
    /\ pc = "start"
    /\ \E o \in StatusOutcomes :
         /\ requests' = Append(requests, Request("connectionState", "none", <<>>, o))
         /\ IF checkInstanceStatus(o).connected
            THEN pc' = "format" /\ result' = result
            ELSE pc' = "done" /\ result' = Threw("Erro ao verificar conexao WhatsApp")
    /\ UNCHANGED <<to, WHATSAPP_DISABLED, WHATSAPP_SKIP_NUMBER_CHECK,
                   formattedNumber, othersOfSend>>

\* the instance status check
CheckStatus ==
    /\ pc = "start"
    /\ ~WHATSAPP_DISABLED
    /\ \E o \in StatusOutcomes :
         /\ requests' = Append(requests, Request("connectionState", "none", <<>>, o))
         /\ IF checkInstanceStatus(o).connected
            THEN pc' = "format" /\ result' = result
            ELSE pc' = "done" /\ result' = Threw("Erro ao verificar conexao WhatsApp")
    /\ UNCHANGED <<to, WHATSAPP_DISABLED, WHATSAPP_SKIP_NUMBER_CHECK,
                   formattedNumber, othersOfSend>>

\* cleaning, formatting and final validation of the number
Format ==
    /\ pc = "format"
    /\ LET f == FormatNumber(to)
       IN  IF f.ok
           THEN /\ formattedNumber' = f.number
                /\ result' = result
                /\ pc' = IF WHATSAPP_SKIP_NUMBER_CHECK THEN "send1" ELSE "lookup"
           ELSE /\ formattedNumber' = formattedNumber
                /\ result' = Threw(f.error)
                /\ pc' = "done"
    /\ UNCHANGED <<to, WHATSAPP_DISABLED, WHATSAPP_SKIP_NUMBER_CHECK,
                   requests, othersOfSend>>

\* the number lookup
Lookup ==
    /\ pc = "lookup"
    /\ \E o \in LookupOutcomes :
         /\ requests' = Append(requests,
                               Request("whatsappNumbers", "numbers", formattedNumber, o))
         /\ IF checkWhatsAppNumber(o).exists
            THEN pc' = "send1" /\ result' = result
            ELSE pc' = "done" /\ result' = Threw("Numero nao possui WhatsApp ativo")
    /\ UNCHANGED <<to, WHATSAPP_DISABLED, WHATSAPP_SKIP_NUMBER_CHECK,
                   formattedNumber, othersOfSend>>

\* first attempt: payload { number, textMessage: { text } }
SendPrimary ==
    /\ pc = "send1"
    /\ \E o \in SendOutcomes :
         /\ requests' = Append(requests,
                               Request("sendText", "textMessage.text", formattedNumber, o))
         /\ IF RetriesAfter(o)
            THEN pc' = "send2" /\ result' = result
            ELSE pc' = "done" /\ result' = SendResult(o)
    /\ UNCHANGED <<to, WHATSAPP_DISABLED, WHATSAPP_SKIP_NUMBER_CHECK,
                   formattedNumber, othersOfSend>>

\* second attempt: payload { number, text }
SendAlternative ==
    /\ pc = "send2"
    /\ \E o \in SendOutcomes :
         /\ requests' = Append(requests,
                               Request("sendText", "text", formattedNumber, o))
         /\ pc' = "done"
         /\ result' = SendResult(o)
    /\ UNCHANGED <<to, WHATSAPP_DISABLED, WHATSAPP_SKIP_NUMBER_CHECK,
                   formattedNumber, othersOfSend>>

RegIdle ==
    /\ profiles = {}
    /\ authUsers = {}
    /\ tempPasswords = {}
    /\ req = <<>>
    /\ started = 0

CpIdle ==
    /\ cpProfiles = <<>>
    /\ cpPassword = <<>>
    /\ cpTempUsed = <<>>
    /\ cpReq = <<>>
    /\ cpStarted = 0

NsIdle ==
    /\ callbacks = <<>>
    /\ deliveries = <<>>
    /\ fanouts = <<>>
    /\ lastFanout = <<>>

ChIdle ==
    /\ channel = 0
    /\ isConnected = FALSE
    /\ channels = <<>>
    /\ stopping = 0
    /\ lastStart = "none"
    /\ stopped = FALSE

CardIdle ==
    /\ entry_type = "visitor"
    /\ responding = FALSE
    /\ showRejectModal = FALSE
    /\ showDeliveryModal = FALSE
    /\ rejectReason = ""
    /\ pending = "none"
    /\ attempts = 0

VoteIdle ==
    /\ poll_votes = <<>>
    /\ pollState = "active"
    /\ uniqueVotes = FALSE
    /\ polls = <<>>
    /\ votingPollId = <<>>
    /\ voteCall = <<>>
    /\ voteCalls = 0

InitSend == WaInit /\ RegIdle /\ CpIdle /\ NsIdle /\ ChIdle /\ VoteIdle /\ CardIdle

NextSend ==
    \/ Disabled
    \/ CheckStatus
    \/ Format
    \/ Lookup
    \/ SendPrimary
    \/ SendAlternative

SpecSend == InitSend /\ [][NextSend]_vars

-----------------------------------------------------------------------------
(* Properties of sendWhatsApp (SpecSend)                                   *)

\* the digits-only form of a string, character by character
RECURSIVE DigitsOnly(_)
DigitsOnly(s) ==
    IF s = <<>> THEN <<>>
    ELSE (IF Head(s) \in DigitChars THEN <<Head(s)>> ELSE <<>>) \o DigitsOnly(Tail(s))

\* the formatting step has run: the status check answered 'open' and the
\* call has moved past the formatting
FormatDone ==
    /\ pc \in {"lookup", "send1", "send2", "done"}
    /\ Len(requests) >= 1
    /\ requests[1].outcome = "open"

\* the formatting step rejected the number: the call threw and issued
\* nothing but the status check
FormatRejected ==
    /\ pc = "done"
    /\ result.kind = "error"
    /\ formattedNumber = <<>>
    /\ \A i \in 1..Len(requests) : requests[i].endpoint = "connectionState"

\* the exchanges of one endpoint, in order
Exchanges(endpoint) == SelectSeq(requests, LAMBDA r : r.endpoint = endpoint)

\* an attempt failed: anything but a 2xx response that carries a message key
AttemptFailed(o) == o # "2xx_key"

\* C1: once the formatting step has run, an input whose digits-only form has
\* exactly 10 digits and an allow-listed DDD in its first two digits has been
\* formatted as "55" followed by those same 10 digits.
C1_TenDigitsGetCountryCode ==
    LET d == DigitsOnly(to)
    IN  (FormatDone /\ Len(d) = 10 /\ SubSeq(d, 1, 2) \in VALID_DDDS)
        => /\ Len(formattedNumber) = 12
           /\ formattedNumber[1] = "5" /\ formattedNumber[2] = "5"
           /\ \A i \in 1..10 : formattedNumber[i + 2] = d[i]

C1_Witness ==
    /\ FormatDone
    /\ Len(DigitsOnly(to)) = 10
    /\ Len(to) > 10
    /\ formattedNumber # <<>>

\* C2: an input whose digits-only form has exactly 11 digits and a third
\* digit other than 9 is rejected by the formatting step, with a valid DDD or
\* not, and no lookup or send request is issued for it.
C2_ElevenDigitsNeedNine ==
    LET d == DigitsOnly(to)
    IN  (FormatDone /\ Len(d) = 11 /\ d[3] # "9") => FormatRejected

C2_Witness ==
    LET d == DigitsOnly(to)
    IN  /\ FormatDone /\ Len(d) = 11 /\ d[3] # "9"
        /\ SubSeq(d, 1, 2) \in VALID_DDDS
        /\ FormatRejected

\* the area code of an input, where the formatter looks for it
HasInvalidDdd(d) ==
    \/ Len(d) \in {10, 11} /\ SubSeq(d, 1, 2) \notin VALID_DDDS
    \/ Len(d) \in {12, 13} /\ SubSeq(d, 1, 2) = CountryCode
                           /\ SubSeq(d, 3, 4) \notin VALID_DDDS

\* C3: an input whose area code is outside the allow-list (digits 1-2 of a
\* 10- or 11-digit input, digits 3-4 of a 12- or 13-digit input starting with
\* 55) is rejected by the formatting step and no lookup or send request is
\* issued for it.
C3_InvalidDddRejected ==
    (FormatDone /\ HasInvalidDdd(DigitsOnly(to))) => FormatRejected

C3_Witness ==
    LET d == DigitsOnly(to)
    IN  /\ FormatDone /\ Len(d) = 13 /\ HasInvalidDdd(d) /\ d[5] = "9"
        /\ FormatRejected

\* C4: formatting is idempotent: the formatting step accepts every number it
\* has produced and returns it unchanged.
C4_FormatIdempotent ==
    formattedNumber # <<>> =>
        LET again == FormatNumber(formattedNumber)
        IN  again.ok /\ again.number = formattedNumber

C4_Witness ==
    /\ formattedNumber # <<>>
    /\ Len(DigitsOnly(to)) = 10
    /\ formattedNumber # to

\* C5: a 13-digit input that starts with 55 and whose fifth digit is not 9 is
\* rejected; a 13-digit input is accepted only when it starts with 55, its
\* digits 3-4 are an allowed DDD and its fifth digit is 9.
C5_ThirteenDigitsNeedNine ==
    LET d == DigitsOnly(to)
    IN  (FormatDone /\ Len(d) = 13) =>
          /\ (SubSeq(d, 1, 2) = CountryCode /\ d[5] # "9") => FormatRejected
          /\ ~FormatRejected => /\ SubSeq(d, 1, 2) = CountryCode
                                /\ SubSeq(d, 3, 4) \in VALID_DDDS
                                /\ d[5] = "9"

C5_Witness ==
    LET d == DigitsOnly(to)
    IN  /\ FormatDone /\ Len(d) = 13
        /\ SubSeq(d, 1, 2) = CountryCode /\ SubSeq(d, 3, 4) \in VALID_DDDS
        /\ d[5] # "9"
        /\ FormatRejected

\* C6: an input whose digits-only form has a length other than 10, 11, 12 or
\* 13 (the empty string included) is rejected by the formatting step and
\* never reaches the lookup or send requests.
C6_OtherLengthsRejected ==
    (FormatDone /\ Len(DigitsOnly(to)) \notin 10..13) => FormatRejected

C6_Witness ==
    /\ FormatDone
    /\ Len(DigitsOnly(to)) = 14
    /\ FormatRejected

\* the three conditions of the final validation
WellFormed(n) ==
    /\ Len(n) \in {12, 13}
    /\ SubSeq(n, 1, 2) = CountryCode
    /\ SubSeq(n, 3, 4) \in VALID_DDDS

\* C7: the final validation is redundant: neither of its two errors is ever
\* thrown, and the number of every lookup or send request has length 12 or
\* 13, starts with 55 and has an allow-listed DDD at digits 3-4.
C7_FinalValidationUnreachable ==
    /\ result.code \notin {"Numero invalido apos formatacao",
                           "DDD invalido apos formatacao"}
    /\ \A i \in 1..Len(requests) :
          requests[i].endpoint \in {"whatsappNumbers", "sendText"}
              => WellFormed(requests[i].number)

C7_Witness ==
    /\ pc = "done"
    /\ Len(Exchanges("whatsappNumbers")) = 1
    /\ Len(Exchanges("sendText")) = 2
    /\ Len(DigitsOnly(to)) = 12

\* C9: one call issues at most two message/sendText requests: the first with
\* the primary schema, the second with the alternate schema and the same
\* number, and only after the first one failed; the status check and the
\* lookup are issued at most once each.
C9_AtMostTwoSends ==
    LET sends == Exchanges("sendText")
    IN  /\ Len(sends) <= 2
        /\ Len(sends) >= 1 => sends[1].schema = "textMessage.text"
        /\ Len(sends) = 2 => /\ sends[2].schema = "text"
                             /\ sends[2].number = sends[1].number
                             /\ AttemptFailed(sends[1].outcome)
        /\ Len(Exchanges("connectionState")) <= 1
        /\ Len(Exchanges("whatsappNumbers")) <= 1

C9_Witness ==
    /\ pc = "done"
    /\ Len(Exchanges("sendText")) = 2
    /\ result.kind = "ok"

\* C10 as stated: after any failure of the primary attempt, a response
\* without message key included, an error is reported only after the
\* alternate attempt was made too.
C10_ErrorOnlyAfterTwoAttempts ==
    LET sends == Exchanges("sendText")
    IN  (pc = "done" /\ result.kind = "error" /\ Len(sends) >= 1)
            => Len(sends) = 2

\* C10 amended: a primary attempt that ends in an HTTP error status or a
\* network error is followed by exactly one alternate attempt before an error
\* is reported; a primary attempt answered 2xx without message key is
\* reported as an error at once, after that single attempt.
C10_RetryOnlyAfterRejectedRequest ==
    LET sends == Exchanges("sendText")
    IN  /\ (Len(sends) = 1 /\ sends[1].outcome \in SendHttpErrors \cup SendNetworkErrors)
            => (pc = "send2" /\ result = NoResult)
        /\ (pc = "done" /\ result.kind = "error" /\ Len(sends) >= 1)
            => \/ /\ Len(sends) = 2
                  /\ sends[1].outcome \in SendHttpErrors \cup SendNetworkErrors
               \/ /\ Len(sends) = 1
                  /\ sends[1].outcome = "2xx_no_key"

C10_Witness ==
    LET sends == Exchanges("sendText")
    IN  /\ pc = "done" /\ result.kind = "error"
        /\ Len(sends) = 2
        /\ sends[1].outcome = "ETIMEDOUT"
        /\ sends[2].outcome = "400_plain"

\* C11: with sending enabled the status check is the first request; when it
\* does not report connected the call throws without formatting the number
\* and without any lookup or send request, so every lookup or send request
\* follows a status check that answered 'open'.
C11_StatusCheckFirst ==
    /\ (~WHATSAPP_DISABLED /\ pc # "start")
          => (Len(requests) >= 1 /\ requests[1].endpoint = "connectionState")
    /\ \A i \in 1..Len(requests) :
          requests[i].endpoint \in {"whatsappNumbers", "sendText"}
              => /\ i > 1
                 /\ requests[1].endpoint = "connectionState"
                 /\ requests[1].outcome = "open"
    /\ (Len(requests) >= 1 /\ requests[1].outcome # "open")
          => /\ pc = "done"
             /\ result.kind = "error"
             /\ formattedNumber = <<>>
             /\ Len(requests) = 1

C11_Witness ==
    /\ pc = "done"
    /\ Len(requests) = 1
    /\ requests[1].outcome = "connecting"
    /\ result.kind = "error"
    /\ Len(DigitsOnly(to)) = 11 /\ SubSeq(DigitsOnly(to), 1, 3) = <<"1", "1", "9">>

\* C12: with WHATSAPP_DISABLED the call returns the simulated success
\* (messageId 'disabled') for every input and issues no request at all.
C12_DisabledSimulatesSuccess ==
    WHATSAPP_DISABLED =>
        /\ requests = <<>>
        /\ formattedNumber = <<>>
        /\ pc \in {"start", "done"}
        /\ pc = "done" => result = [kind |-> "ok", code |-> "disabled"]

C12_Witness ==
    /\ WHATSAPP_DISABLED
    /\ pc = "done"
    /\ result.kind = "ok"
    /\ Len(DigitsOnly(to)) = 3

\* the lookup lets the send go ahead: skipped, reported existing, or failed
LookupAllowsSend ==
    \/ WHATSAPP_SKIP_NUMBER_CHECK
    \/ /\ Len(Exchanges("whatsappNumbers")) = 1
       /\ Exchanges("whatsappNumbers")[1].outcome \in {"exists", "failed"}

\* C13: a send request is issued exactly when the number passed formatting
\* and the lookup was skipped (then no lookup request is made), reported the
\* number as existing, or failed; a lookup that completes without reporting
\* the number as existing makes the call throw with no send request.
C13_SendExactlyWhenLookupAllows ==
    LET lookups == Exchanges("whatsappNumbers")
        sends == Exchanges("sendText")
    IN  /\ WHATSAPP_SKIP_NUMBER_CHECK => lookups = <<>>
        /\ Len(sends) >= 1 => (formattedNumber # <<>> /\ LookupAllowsSend)
        /\ (pc = "done" /\ formattedNumber # <<>> /\ LookupAllowsSend)
              => Len(sends) >= 1
        /\ (Len(lookups) = 1
            /\ lookups[1].outcome \in {"not_exists", "not_listed", "not_array"})
              => (pc = "done" /\ result.kind = "error" /\ sends = <<>>)

C13_Witness ==
    /\ pc = "done"
    /\ Len(Exchanges("whatsappNumbers")) = 1
    /\ Exchanges("whatsappNumbers")[1].outcome = "failed"
    /\ Len(Exchanges("sendText")) >= 1

\* the failure classes that have an error of their own
FailureClasses == {"401", "404", "400", "500", "ECONNREFUSED"}

FailureClass(o) ==
    CASE o = "401" -> "401"
      [] o = "404" -> "404"
      [] o \in {"400_exists_false", "400_array", "400_message", "400_plain"} -> "400"
      [] o \in {"500_connection_closed", "500"} -> "500"
      [] o = "ECONNREFUSED" -> "ECONNREFUSED"
      [] OTHER -> "other"

\* the errors reported for each class
ErrorsOfClass(c) ==
    CASE c = "401" -> {"API Key invalida"}
      [] c = "404" -> {"Instancia nao encontrada"}
      [] c = "400" -> {"Numero nao possui WhatsApp ativo (400)",
                       "Erro de validacao Evolution API", "Dados invalidos",
                       "Numero ou formato de mensagem invalido"}
      [] c = "500" -> {"WhatsApp desconectado", "Erro interno da Evolution API"}
      [] c = "ECONNREFUSED" -> {"Evolution API nao esta acessivel"}

\* C14: when the last send attempt fails the call throws, never returns
\* success, and the error is the one of that attempt's failure class,
\* whatever the earlier attempt did; the errors of the classes 401, 404, 400,
\* 500 and connection-refused are pairwise different.
C14_ErrorByClassOfLastAttempt ==
    LET sends == Exchanges("sendText")
    IN  (pc = "done" /\ Len(sends) >= 1 /\ AttemptFailed(sends[Len(sends)].outcome))
        => LET c == FailureClass(sends[Len(sends)].outcome)
           IN  /\ result.kind = "error"
               /\ c \in FailureClasses =>
                     /\ result.code \in ErrorsOfClass(c)
                     /\ \A c2 \in FailureClasses \ {c} :
                           result.code \notin ErrorsOfClass(c2)

C14_Witness ==
    LET sends == Exchanges("sendText")
    IN  /\ pc = "done"
        /\ Len(sends) = 2
        /\ sends[1].outcome = "401"
        /\ sends[2].outcome = "404"
        /\ result = [kind |-> "error", code |-> "Instancia nao encontrada"]

\* parseInt of a string of decimal digits (<<>> stands for NaN and is never
\* passed: the caller has checked the length)
RECURSIVE parseInt(_)
parseInt(s) ==
    IF s = <<>> THEN 0
    ELSE 10 * parseInt(SubSeq(s, 1, Len(s) - 1))
         + (CHOOSE v \in 0..9 : DigitOf[v + 1] = s[Len(s)])

\* validateBrazilianPhone(phone): 10 or 11 digits once everything else is
\* removed, an area code from 11 to 99, and a 9 after it when the number has
\* 11 digits
validateBrazilianPhone(phone) ==
    IF phone = <<>> THEN FALSE
    ELSE LET cleanPhone == SelectSeq(phone, LAMBDA c : c \in DigitChars)
         IN  IF Len(cleanPhone) < 10 \/ Len(cleanPhone) > 11 THEN FALSE
             ELSE LET ddd == parseInt(substring(cleanPhone, 0, 2))
                  IN  IF ddd < 11 \/ ddd > 99 THEN FALSE
                      ELSE IF Len(cleanPhone) = 11 /\ cleanPhone[3] # "9"
                           THEN FALSE
                           ELSE TRUE

\* C30: once the formatting step has run on an input of 10 or 11 digits, it
\* has accepted the input exactly when validateBrazilianPhone accepts it:
\* whatever the validator accepts the formatter accepts, and whatever
\* 10- or 11-digit input the formatter accepts the validator accepts.
C30_ValidatorAgreesWithFormatter ==
    LET d == DigitsOnly(to)
    IN  (FormatDone /\ Len(d) \in {10, 11})
            => (validateBrazilianPhone(to) <=> ~FormatRejected)

-----------------------------------------------------------------------------
(* POST /register-resident: concurrent requests against the backend        *)

Handlers == 1..NumHandlers
Emails == {"ana@x", "bia@x"}
Phones == { <<"1","1","3","3","3","3","4","4","4","4">>,
            <<"0","0","3","3","3","3","4","4","4","4">> }

\* what a backend call can answer: supabase-js resolves to { data, error }
QueryOutcomes == {"answered", "failed"}

IdleRequest ==
    [pc |-> "idle", n |-> 0, email |-> "none", phone |-> <<>>,
     rowAtCheck |-> FALSE, pwGenerated |-> FALSE, authAttempted |-> FALSE,
     userCreated |-> FALSE, profileInserted |-> FALSE, sent |-> 0,
     sendOutcome |-> "none", status |-> 0, success |-> FALSE]

\* res.status(code).json({ success: false, ... })
RespondError(r, code) == [r EXCEPT !.pc = "done", !.status = code, !.success = FALSE]

\* res.json({ success: true, ... })
RespondSuccess(r) == [r EXCEPT !.pc = "done", !.status = 200, !.success = TRUE]

\* .from('profiles').select('id').eq('email', email)
ProfilesWithEmail(email) == {p \in profiles : p.email = email}

\* .single(): data is the row when the query was answered with exactly one
\* row, null otherwise (no row, several rows, or a failed query)
single(rows, o) == o = "answered" /\ Cardinality(rows) = 1

\* what sendWhatsApp can do for a phone: return or throw
SendWhatsAppOutcomes(phone) ==
    IF WHATSAPP_DISABLED THEN {"returned"}
    ELSE IF FormatNumber(phone).ok THEN {"returned", "threw"}
    ELSE {"threw"}

RegInit ==
    /\ profiles = {}
    /\ authUsers = {}
    /\ tempPasswords = {}
    /\ req = [h \in Handlers |-> IdleRequest]
    /\ started = 0

\* a request arrives: registerResidentSchema.parse(req.body)
Receive(h) ==
    /\ req[h].pc \in {"idle", "done"}
    /\ started < MaxRequests
    /\ started' = started + 1
    /\ \E email \in Emails, phone \in Phones, valid \in BOOLEAN :
         req' = [req EXCEPT ![h] =
                    IF valid
                    THEN [IdleRequest EXCEPT !.pc = "check", !.n = started + 1,
                                             !.email = email, !.phone = phone]
                    ELSE RespondError(IdleRequest, 400)]
    /\ UNCHANGED <<profiles, authUsers, tempPasswords, othersOfReg>>

\* check if email already exists
CheckEmail(h) ==
    /\ req[h].pc = "check"
    /\ \E o \in QueryOutcomes :
         LET rows == ProfilesWithEmail(req[h].email)
             r == [req[h] EXCEPT !.rowAtCheck = (rows # {})]
         IN  req' = [req EXCEPT ![h] =
                        IF single(rows, o) THEN RespondError(r, 400)
                        ELSE [r EXCEPT !.pc = "password"]]
    /\ UNCHANGED <<profiles, authUsers, tempPasswords, started, othersOfReg>>

\* supabase.rpc('generate_random_password')
GeneratePassword(h) ==
    /\ req[h].pc = "password"
    /\ \E o \in QueryOutcomes :
         req' = [req EXCEPT ![h] =
                    IF o = "failed" THEN RespondError(req[h], 500)
                    ELSE [req[h] EXCEPT !.pc = "createUser", !.pwGenerated = TRUE]]
    /\ UNCHANGED <<profiles, authUsers, tempPasswords, started, othersOfReg>>

\* an auth service without a uniqueness constraint on the email
CreateUser_NoUniqueEmail(h) ==
    /\ req[h].pc = "createUser"
    /\ \E o \in QueryOutcomes :
         LET r == [req[h] EXCEPT !.authAttempted = TRUE]
         IN  IF o = "failed"
             THEN /\ req' = [req EXCEPT ![h] = RespondError(r, 400)]
                  /\ authUsers' = authUsers
             ELSE /\ req' = [req EXCEPT ![h] =
                                [r EXCEPT !.pc = "insertProfile", !.userCreated = TRUE]]
                  /\ authUsers' = authUsers \cup {[id |-> r.n, email |-> r.email]}
    /\ UNCHANGED <<profiles, tempPasswords, started, othersOfReg>>

\* supabase.auth.admin.createUser: the auth service refuses an email that
\* already has a user, and may fail for any other reason
CreateUser(h) ==
    /\ req[h].pc = "createUser"
    /\ \E o \in QueryOutcomes :
         LET taken == \E u \in authUsers : u.email = req[h].email
             r == [req[h] EXCEPT !.authAttempted = TRUE]
         IN  IF o = "failed" \/ taken
             THEN /\ req' = [req EXCEPT ![h] = RespondError(r, 400)]
                  /\ authUsers' = authUsers
             ELSE /\ req' = [req EXCEPT ![h] =
                                [r EXCEPT !.pc = "insertProfile", !.userCreated = TRUE]]
                  /\ authUsers' = authUsers \cup {[id |-> r.n, email |-> r.email]}
    /\ UNCHANGED <<profiles, tempPasswords, started, othersOfReg>>

\* a handler that goes on after a failed profile insert
InsertProfile_IgnoresError(h) ==
    /\ req[h].pc = "insertProfile"
    /\ \E o \in QueryOutcomes :
         IF o = "failed"
         THEN /\ req' = [req EXCEPT ![h].pc = "tempPassword"]
              /\ profiles' = profiles
         ELSE /\ req' = [req EXCEPT ![h].pc = "tempPassword",
                                    ![h].profileInserted = TRUE]
              /\ profiles' = profiles \cup
                    {[id |-> req[h].n, email |-> req[h].email, user_id |-> req[h].n]}
    /\ UNCHANGED <<authUsers, tempPasswords, started, othersOfReg>>

\* .from('profiles').insert({...}).select().single()
InsertProfile(h) ==
    /\ req[h].pc = "insertProfile"
    /\ \E o \in QueryOutcomes :
         IF o = "failed"
         THEN /\ req' = [req EXCEPT ![h].pc = "deleteUser"]
              /\ profiles' = profiles
         ELSE /\ req' = [req EXCEPT ![h].pc = "tempPassword",
                                    ![h].profileInserted = TRUE]
              /\ profiles' = profiles \cup
                    {[id |-> req[h].n, email |-> req[h].email, user_id |-> req[h].n]}
    /\ UNCHANGED <<authUsers, tempPasswords, started, othersOfReg>>

\* clean up auth user if profile creation fails; the outcome is not inspected
DeleteUser(h) ==
    /\ req[h].pc = "deleteUser"
    /\ \E o \in QueryOutcomes :
         authUsers' = IF o = "failed" THEN authUsers
                      ELSE {u \in authUsers : u.id # req[h].n}
    /\ req' = [req EXCEPT ![h] = RespondError(req[h], 500)]
    /\ UNCHANGED <<profiles, tempPasswords, started, othersOfReg>>

\* bcrypt.hash and the insert into temporary_passwords; an error is logged
StoreTemporaryPassword(h) ==
    /\ req[h].pc = "tempPassword"
    /\ \E o \in QueryOutcomes :
         tempPasswords' = IF o = "failed" THEN tempPasswords
                          ELSE tempPasswords \cup {req[h].n}
    /\ req' = [req EXCEPT ![h].pc = "building"]
    /\ UNCHANGED <<profiles, authUsers, started, othersOfReg>>

\* get building info for the message
GetBuilding(h) ==
    /\ req[h].pc = "building"
    /\ req' = [req EXCEPT ![h].pc = "whatsapp"]
    /\ UNCHANGED <<profiles, authUsers, tempPasswords, started, othersOfReg>>

\* a handler that lets the error of sendWhatsApp reach the outer catch
SendCredentials_FailsOnThrow(h) ==
    /\ req[h].pc = "whatsapp"
    /\ \E o \in SendWhatsAppOutcomes(req[h].phone) :
         LET r == [req[h] EXCEPT !.sent = req[h].sent + 1, !.sendOutcome = o]
         IN  req' = [req EXCEPT ![h] =
                        IF o = "threw" THEN RespondError(r, 500)
                        ELSE RespondSuccess(r)]
    /\ UNCHANGED <<profiles, authUsers, tempPasswords, started, othersOfReg>>

\* sendWhatsApp inside its own try/catch (the error is logged), then the
\* success response
SendCredentials(h) ==
    /\ req[h].pc = "whatsapp"
    /\ \E o \in SendWhatsAppOutcomes(req[h].phone) :
         req' = [req EXCEPT ![h] =
                    RespondSuccess([req[h] EXCEPT !.sent = req[h].sent + 1,
                                                  !.sendOutcome = o])]
    /\ UNCHANGED <<profiles, authUsers, tempPasswords, started, othersOfReg>>

InitReg ==
    /\ RegInit
    /\ WaIdle
    /\ CpIdle
    /\ NsIdle
    /\ ChIdle
    /\ VoteIdle
    /\ CardIdle

NextReg ==
    \E h \in Handlers :
        \/ Receive(h)
        \/ CheckEmail(h)
        \/ GeneratePassword(h)
        \/ CreateUser(h)
        \/ InsertProfile(h)
        \/ DeleteUser(h)
        \/ StoreTemporaryPassword(h)
        \/ GetBuilding(h)
        \/ SendCredentials(h)

SpecReg == InitReg /\ [][NextReg]_vars

-----------------------------------------------------------------------------
(* Properties of POST /register-resident (SpecReg)                         *)

\* C8: a request whose email already has a row in profiles at the time of
\* the existence check returns HTTP 400 and performs no password generation,
\* no auth-user creation, no profile insert and no WhatsApp send.
C8_DuplicateEmailStopsAt400 ==
    \A h \in Handlers :
        req[h].rowAtCheck =>
            /\ req[h].pc = "done"
            /\ req[h].status = 400
            /\ ~req[h].pwGenerated
            /\ ~req[h].authAttempted
            /\ ~req[h].profileInserted
            /\ req[h].sent = 0

\* C15: a request whose sendWhatsApp call threw, after the auth user and the
\* profile were created, is answered with HTTP 200 and success: true, and
\* the auth user and the profile it created are still there.
C15_SendFailureIsTolerated ==
    \A h \in Handlers :
        req[h].sendOutcome = "threw" =>
            /\ req[h].pc = "done"
            /\ req[h].status = 200
            /\ req[h].success
            /\ req[h].userCreated /\ req[h].profileInserted
            /\ \E u \in authUsers : u.id = req[h].n
            /\ \E p \in profiles : p.id = req[h].n /\ p.user_id = req[h].n

C15_Witness ==
    \E h \in Handlers :
        /\ req[h].sendOutcome = "threw"
        /\ req[h].pc = "done"
        /\ req[h].status = 200
        /\ \E u \in authUsers : u.id = req[h].n
        /\ \E p \in profiles : p.id = req[h].n

\* two requests in progress or answered, for the same email, that both read
\* no row at the existence check and both called createUser
RacedPair(h1, h2) ==
    /\ h1 # h2
    /\ req[h1].email = req[h2].email
    /\ req[h1].email \in Emails
    /\ ~req[h1].rowAtCheck /\ ~req[h2].rowAtCheck
    /\ req[h1].authAttempted /\ req[h2].authAttempted

\* C16: nothing in the handler stops two requests for the same email that
\* both passed the existence check; both call createUser, and the only
\* thing that keeps the second account from existing is the auth service
\* refusing the email: a request that called createUser and got no user was
\* answered by the createUser error path (400), and no email has two users.
C16_OnlyTheStoreStopsTheSecondAccount ==
    /\ \A h \in Handlers :
          (req[h].authAttempted /\ ~req[h].userCreated) =>
              (req[h].pc = "done" /\ req[h].status = 400 /\ ~req[h].profileInserted)
    /\ \A u1, u2 \in authUsers : u1.email = u2.email => u1.id = u2.id
    /\ \A h1, h2 \in Handlers :
          RacedPair(h1, h2) =>
              \/ ~req[h1].userCreated
              \/ ~req[h2].userCreated
              \/ \E h \in {h1, h2} : \A u \in authUsers : u.id # req[h].n

C16_Witness ==
    \E h1, h2 \in Handlers :
        /\ RacedPair(h1, h2)
        /\ req[h1].userCreated /\ req[h1].profileInserted
        /\ \E u \in authUsers : u.id = req[h1].n
        /\ ~req[h2].userCreated
        /\ req[h2].pc = "done" /\ req[h2].status = 400

\* C21: when the profile insert fails after the auth user was created, the
\* handler returns HTTP 500, and a request that ends with an error response
\* after creating an auth user leaves no auth user without a profile.
C21_NoOrphanAuthUser ==
    \A h \in Handlers :
        (req[h].pc = "done" /\ ~req[h].success /\ req[h].userCreated) =>
            /\ req[h].status = 500
            /\ \A u \in authUsers :
                  u.id = req[h].n => \E p \in profiles : p.user_id = u.id

\* C22: sendWhatsApp is called at most once per request and only after the
\* auth user and the profile were created; a request answered with an error
\* never called it, and a request that failed at password generation is
\* answered 500 without a createUser call.
C22_SendOnlyAfterAccountCreated ==
    \A h \in Handlers :
        /\ req[h].sent <= 1
        /\ req[h].sent = 1 => (req[h].userCreated /\ req[h].profileInserted)
        /\ (req[h].pc = "done" /\ ~req[h].success) => req[h].sent = 0
        /\ req[h].pc \notin {"done", "idle"} => req[h].sent = 0
        /\ (req[h].pc = "done" /\ req[h].n > 0 /\ ~req[h].rowAtCheck
               /\ ~req[h].pwGenerated) =>
              (req[h].status = 500 /\ ~req[h].authAttempted /\ ~req[h].userCreated)

C22_Witness ==
    \E h, g \in Handlers :
        /\ req[h].pc = "done" /\ req[h].success /\ req[h].sent = 1
        /\ req[h].userCreated /\ req[h].profileInserted
        /\ req[g].pc = "done" /\ req[g].n > 0 /\ ~req[g].pwGenerated
        /\ ~req[g].rowAtCheck /\ req[g].status = 500 /\ req[g].sent = 0

-----------------------------------------------------------------------------
(* POST /complete-profile: concurrent requests against the backend         *)

CpIds == 1..NumProfiles
\* a profile_id that no row has
NoProfile == 0
Cpfs == {"111", "222"}
NoCpf == "none"

\* a row as the registration leaves it, and a row after completion
IncompleteRow == [cpf |-> NoCpf, profile_complete |-> FALSE]
CompleteRow(cpf) == [cpf |-> cpf, profile_complete |-> TRUE]

\* the password set at registration
TemporaryPassword == <<"temporary">>

\* new_password of the n-th request
NewPassword(n) == <<"new", n>>

CpIdleRequest ==
    [pc |-> "idle", n |-> 0, profile_id |-> NoProfile, cpf |-> NoCpf,
     completeAtCheck |-> FALSE, cpfTakenAtCheck |-> FALSE,
     pwUpdated |-> FALSE, profileUpdated |-> FALSE, tempMarked |-> FALSE,
     status |-> 0, error |-> "none"]

\* res.status(code).json({ success: false, error })
CpRespondError(r, code, error) ==
    [r EXCEPT !.pc = "done", !.status = code, !.error = error]

\* .from('profiles').select(...).eq('id', profile_id)
ProfilesWithId(id) == {p \in CpIds : p = id}

\* .from('profiles').select('id').eq('cpf', cpf).neq('id', profile_id)
OtherProfilesWithCpf(cpf, id) ==
    {p \in CpIds : p # id /\ cpProfiles[p].cpf = cpf}

\* the table before any request: every row is incomplete, or was completed
\* with a CPF that no other row has
CpInit ==
    /\ cpProfiles \in [CpIds -> {IncompleteRow} \cup {CompleteRow(c) : c \in Cpfs}]
    /\ \A p, q \in CpIds :
          (p # q /\ cpProfiles[p].cpf # NoCpf) => cpProfiles[p].cpf # cpProfiles[q].cpf
    /\ cpPassword = [p \in CpIds |-> TemporaryPassword]
    /\ cpTempUsed = [p \in CpIds |-> cpProfiles[p].profile_complete]
    /\ cpReq = [h \in Handlers |-> CpIdleRequest]
    /\ cpStarted = 0

\* a request arrives and is taken by the first free handler instance:
\* completeProfileSchema.parse(req.body)
CpReceive(h) ==
    /\ cpReq[h].pc \in {"idle", "done"}
    /\ \A g \in Handlers : g < h => cpReq[g].pc \notin {"idle", "done"}
    /\ cpStarted < MaxRequests
    /\ cpStarted' = cpStarted + 1
    /\ \E id \in CpIds \cup {NoProfile}, cpf \in Cpfs, valid \in BOOLEAN :
         cpReq' = [cpReq EXCEPT ![h] =
                      IF valid
                      THEN [CpIdleRequest EXCEPT !.pc = "getProfile",
                                                 !.n = cpStarted + 1,
                                                 !.profile_id = id, !.cpf = cpf]
                      ELSE CpRespondError(CpIdleRequest, 400, "Dados invalidos")]
    /\ UNCHANGED <<cpProfiles, cpPassword, cpTempUsed, othersOfComplete>>

\* a handler without the profile_complete test
GetProfile_NoCompleteTest(h) ==
    /\ cpReq[h].pc = "getProfile"
    /\ \E o \in QueryOutcomes :
         LET rows == ProfilesWithId(cpReq[h].profile_id)
             complete == rows # {} /\ cpProfiles[cpReq[h].profile_id].profile_complete
             r == [cpReq[h] EXCEPT !.completeAtCheck = complete]
         IN  cpReq' = [cpReq EXCEPT ![h] =
                          IF ~single(rows, o)
                          THEN CpRespondError(r, 404, "Perfil nao encontrado")
                          ELSE [r EXCEPT !.pc = "checkCpf"]]
    /\ UNCHANGED <<cpProfiles, cpPassword, cpTempUsed, cpStarted, othersOfComplete>>

\* get profile and user info, then the profile_complete test
GetProfile(h) ==
    /\ cpReq[h].pc = "getProfile"
    /\ \E o \in QueryOutcomes :
         LET rows == ProfilesWithId(cpReq[h].profile_id)
             complete == rows # {} /\ cpProfiles[cpReq[h].profile_id].profile_complete
             r == [cpReq[h] EXCEPT !.completeAtCheck = complete]
         IN  cpReq' = [cpReq EXCEPT ![h] =
                          IF ~single(rows, o)
                          THEN CpRespondError(r, 404, "Perfil nao encontrado")
                          ELSE IF complete
                          THEN CpRespondError(r, 400, "Perfil ja foi completado")
                          ELSE [r EXCEPT !.pc = "checkCpf"]]
    /\ UNCHANGED <<cpProfiles, cpPassword, cpTempUsed, cpStarted, othersOfComplete>>

\* check if CPF already exists (excluding current profile); only `data` of
\* the answer is read
CheckCpf(h) ==
    /\ cpReq[h].pc = "checkCpf"
    /\ \E o \in QueryOutcomes :
         LET rows == OtherProfilesWithCpf(cpReq[h].cpf, cpReq[h].profile_id)
             r == [cpReq[h] EXCEPT !.cpfTakenAtCheck = (rows # {})]
         IN  cpReq' = [cpReq EXCEPT ![h] =
                          IF single(rows, o)
                          THEN CpRespondError(r, 400, "CPF ja cadastrado no sistema")
                          ELSE [r EXCEPT !.pc = "updatePassword"]]
    /\ UNCHANGED <<cpProfiles, cpPassword, cpTempUsed, cpStarted, othersOfComplete>>

\* supabase.auth.admin.updateUserById(profile.user_id, { password })
UpdatePassword(h) ==
    /\ cpReq[h].pc = "updatePassword"
    /\ \E o \in QueryOutcomes :
         IF o = "failed"
         THEN /\ cpReq' = [cpReq EXCEPT ![h] =
                              CpRespondError(cpReq[h], 500, "Erro ao atualizar senha")]
              /\ cpPassword' = cpPassword
         ELSE /\ cpReq' = [cpReq EXCEPT ![h].pc = "updateProfile",
                                        ![h].pwUpdated = TRUE]
              /\ cpPassword' = [cpPassword EXCEPT ![cpReq[h].profile_id] =
                                                      NewPassword(cpReq[h].n)]
    /\ UNCHANGED <<cpProfiles, cpTempUsed, cpStarted, othersOfComplete>>

\* a handler that puts the temporary password back when the profile update
\* fails
UpdateProfile_RevertsPassword(h) ==
    /\ cpReq[h].pc = "updateProfile"
    /\ \E o \in QueryOutcomes :
         IF o = "failed"
         THEN /\ cpReq' = [cpReq EXCEPT ![h] =
                              CpRespondError(cpReq[h], 500, "Erro ao completar perfil")]
              /\ cpProfiles' = cpProfiles
              /\ cpPassword' = [cpPassword EXCEPT ![cpReq[h].profile_id] =
                                                      TemporaryPassword]
         ELSE /\ cpReq' = [cpReq EXCEPT ![h].pc = "markUsed",
                                        ![h].profileUpdated = TRUE]
              /\ cpProfiles' = [cpProfiles EXCEPT ![cpReq[h].profile_id] =
                                                      CompleteRow(cpReq[h].cpf)]
              /\ cpPassword' = cpPassword
    /\ UNCHANGED <<cpTempUsed, cpStarted, othersOfComplete>>

\* .from('profiles').update({ cpf, ..., profile_complete: true }).eq('id', profile_id)
UpdateProfile(h) ==
    /\ cpReq[h].pc = "updateProfile"
    /\ \E o \in QueryOutcomes :
         IF o = "failed"
         THEN /\ cpReq' = [cpReq EXCEPT ![h] =
                              CpRespondError(cpReq[h], 500, "Erro ao completar perfil")]
              /\ cpProfiles' = cpProfiles
         ELSE /\ cpReq' = [cpReq EXCEPT ![h].pc = "markUsed",
                                        ![h].profileUpdated = TRUE]
              /\ cpProfiles' = [cpProfiles EXCEPT ![cpReq[h].profile_id] =
                                                      CompleteRow(cpReq[h].cpf)]
    /\ UNCHANGED <<cpPassword, cpTempUsed, cpStarted, othersOfComplete>>

\* mark temporary password as used (the answer is not inspected), then the
\* success response
MarkUsed(h) ==
    /\ cpReq[h].pc = "markUsed"
    /\ \E o \in QueryOutcomes :
         IF o = "failed"
         THEN /\ cpTempUsed' = cpTempUsed
              /\ cpReq' = [cpReq EXCEPT ![h].pc = "done", ![h].status = 200]
         ELSE /\ cpTempUsed' = [cpTempUsed EXCEPT ![cpReq[h].profile_id] = TRUE]
              /\ cpReq' = [cpReq EXCEPT ![h].pc = "done", ![h].status = 200,
                                        ![h].tempMarked = TRUE]
    /\ UNCHANGED <<cpProfiles, cpPassword, cpStarted, othersOfComplete>>

InitComplete ==
    /\ CpInit
    /\ WaIdle
    /\ RegIdle
    /\ NsIdle
    /\ ChIdle
    /\ VoteIdle
    /\ CardIdle

NextComplete ==
    \E h \in Handlers :
        \/ CpReceive(h)
        \/ GetProfile(h)
        \/ CheckCpf(h)
        \/ UpdatePassword(h)
        \/ UpdateProfile(h)
        \/ MarkUsed(h)

SpecComplete == InitComplete /\ [][NextComplete]_vars

-----------------------------------------------------------------------------
(* Properties of POST /complete-profile (SpecComplete)                     *)

\* the request changed nothing: no auth password update, no profile update
\* and no change to temporary_passwords
ChangedNothing(r) == ~r.pwUpdated /\ ~r.profileUpdated /\ ~r.tempMarked

\* the request has run the profile query, resp. the CPF query
PastGetProfile(r) == r.pc \notin {"idle", "getProfile"} /\ r.n > 0
PastCheckCpf(r) == PastGetProfile(r) /\ r.pc # "checkCpf" /\ r.error \notin
                      {"Perfil nao encontrado", "Perfil ja foi completado"}

\* C17: a request for a profile that does not exist is answered 404, a
\* request for a profile that is already complete is answered 400, a request
\* whose CPF belongs to another profile is answered 400, and each of these
\* requests changes nothing.
C17_RefusalsChangeNothing ==
    \A h \in Handlers :
        LET r == cpReq[h]
        IN  /\ (PastGetProfile(r) /\ r.profile_id = NoProfile) =>
                  (r.pc = "done" /\ r.status = 404 /\ ChangedNothing(r))
            /\ (PastGetProfile(r) /\ r.completeAtCheck) =>
                  (r.pc = "done" /\ r.status = 400 /\ ChangedNothing(r))
            /\ (PastCheckCpf(r) /\ r.cpfTakenAtCheck) =>
                  (r.pc = "done" /\ r.status = 400 /\ ChangedNothing(r))

\* two requests for the same profile
SameProfile(h1, h2) ==
    /\ h1 # h2
    /\ cpReq[h1].profile_id = cpReq[h2].profile_id
    /\ cpReq[h1].profile_id \in CpIds

\* C23 as stated: of the requests for one profile at most one updates the
\* auth password and marks the profile complete, and a request made once
\* profile_complete is true returns 400 'Perfil ja foi completado' without
\* changing the password.
C23_AtMostOneCompletion ==
    /\ \A h1, h2 \in Handlers :
          SameProfile(h1, h2) =>
              ~(/\ cpReq[h1].pwUpdated /\ cpReq[h1].profileUpdated
                /\ cpReq[h2].pwUpdated /\ cpReq[h2].profileUpdated)
    /\ \A h \in Handlers :
          (PastGetProfile(cpReq[h]) /\ cpReq[h].completeAtCheck) =>
              /\ cpReq[h].status = 400
              /\ cpReq[h].error = "Perfil ja foi completado"
              /\ ~cpReq[h].pwUpdated

\* C23 amended: the profile_complete test is a read-then-write check. A
\* request that reads the profile once profile_complete is true changes
\* nothing and is answered 400 'Perfil ja foi completado' (404 when the read
\* fails); a request updates the password only after reading
\* profile_complete = false, and several requests can do so.
C23_CompletionGuardedByRead ==
    \A h \in Handlers :
        LET r == cpReq[h]
        IN  /\ (PastGetProfile(r) /\ r.completeAtCheck) =>
                  /\ r.pc = "done"
                  /\ ChangedNothing(r)
                  /\ \/ r.status = 400 /\ r.error = "Perfil ja foi completado"
                     \/ r.status = 404 /\ r.error = "Perfil nao encontrado"
            /\ r.pwUpdated => (~r.completeAtCheck /\ r.profile_id \in CpIds)

C23_Witness ==
    \E h1, h2 \in Handlers :
        /\ SameProfile(h1, h2)
        /\ cpReq[h1].pwUpdated /\ cpReq[h1].profileUpdated
        /\ cpReq[h2].pwUpdated /\ cpReq[h2].profileUpdated
        /\ cpReq[h1].status = 200 /\ cpReq[h2].status = 200
        /\ cpPassword[cpReq[h1].profile_id] \in
              {NewPassword(cpReq[h1].n), NewPassword(cpReq[h2].n)}

\* C24: the password is updated before the profile row; a request whose
\* profile update failed is answered 500 having changed the password and
\* neither the profile row nor temporary_passwords, and a password that was
\* changed is never put back.
C24_PasswordChangeIsNotReverted ==
    \A h \in Handlers :
        LET r == cpReq[h]
        IN  /\ r.profileUpdated => r.pwUpdated
            /\ r.tempMarked => r.profileUpdated
            /\ r.error = "Erro ao completar perfil" =>
                  /\ r.pc = "done" /\ r.status = 500
                  /\ r.pwUpdated /\ ~r.profileUpdated /\ ~r.tempMarked
            /\ r.pwUpdated => cpPassword[r.profile_id] # TemporaryPassword

C24_Witness ==
    \E h \in Handlers :
        LET r == cpReq[h]
        IN  /\ r.pc = "done" /\ r.status = 500
            /\ r.error = "Erro ao completar perfil"
            /\ cpPassword[r.profile_id] = NewPassword(r.n)
            /\ ~cpProfiles[r.profile_id].profile_complete
            /\ ~cpTempUsed[r.profile_id]

-----------------------------------------------------------------------------
(* NotificationService: callbacks and the fan-out of change events         *)

\* callbacks that client code can register, by what they do when invoked:
\* return, throw, or unregister themselves (removeCallback) and return
CallbackKinds == {"returns", "throws", "removesItself"}
Callbacks == CallbackKinds

\* rows of visitor_logs whose updates are delivered
EventIds == {"log1", "log2"}

\* this.callbacks.indexOf(callback), 0 when absent
RECURSIVE indexOfFrom(_, _, _)
indexOfFrom(arr, c, k) ==
    IF k > Len(arr) THEN 0
    ELSE IF arr[k] = c THEN k
    ELSE indexOfFrom(arr, c, k + 1)

indexOf(arr, c) == indexOfFrom(arr, c, 1)

\* arr.splice(index, 1)
splice(arr, index) == [i \in 1..(Len(arr) - 1) |-> IF i < index THEN arr[i] ELSE arr[i + 1]]

\* removeCallback applied to an array
removed(arr, c) == IF indexOf(arr, c) > 0 THEN splice(arr, indexOf(arr, c)) ELSE arr

\* a fan-out without the try/catch around each callback: the exception of
\* a callback leaves forEach
RECURSIVE forEachFrom_NoCatch(_, _, _, _)
forEachFrom_NoCatch(arr, k, len, invoked) ==
    IF k > len THEN [callbacks |-> arr, invoked |-> invoked, escaped |-> FALSE]
    ELSE IF k > Len(arr) THEN forEachFrom_NoCatch(arr, k + 1, len, invoked)
    ELSE IF arr[k] = "throws"
    THEN [callbacks |-> arr, invoked |-> Append(invoked, arr[k]), escaped |-> TRUE]
    ELSE forEachFrom_NoCatch(IF arr[k] = "removesItself" THEN removed(arr, arr[k])
                             ELSE arr,
                             k + 1, len, Append(invoked, arr[k]))

\* Array.prototype.forEach over this.callbacks: the length is read once, the
\* indexes 1..len are visited in order, an index the array no longer has is
\* passed over, and each callback runs against the live array, inside a
\* try/catch that logs what it throws
RECURSIVE forEachFrom(_, _, _, _)
forEachFrom(arr, k, len, invoked) ==
    IF k > len THEN [callbacks |-> arr, invoked |-> invoked, escaped |-> FALSE]
    ELSE IF k > Len(arr) THEN forEachFrom(arr, k + 1, len, invoked)
    ELSE forEachFrom(IF arr[k] = "removesItself" THEN removed(arr, arr[k]) ELSE arr,
                     k + 1, len, Append(invoked, arr[k]))

forEach(arr) == forEachFrom(arr, 1, Len(arr), <<>>)

NoFanout == [list |-> <<>>, invoked |-> <<>>, escaped |-> FALSE]

NsInit ==
    /\ callbacks = <<>>
    /\ deliveries = <<>>
    /\ fanouts = <<>>
    /\ lastFanout = NoFanout

\* addCallback, of a callback that is not registered yet
addCallback(c) ==
    /\ Len(callbacks) < MaxCallbacks
    /\ indexOf(callbacks, c) = 0
    /\ callbacks' = Append(callbacks, c)
    /\ UNCHANGED <<deliveries, fanouts, lastFanout, othersOfNotify>>

\* removeCallback
removeCallback(c) ==
    /\ indexOf(callbacks, c) > 0
    /\ callbacks' = removed(callbacks, c)
    /\ UNCHANGED <<deliveries, fanouts, lastFanout, othersOfNotify>>

\* clearCallbacks
clearCallbacks ==
    /\ callbacks # <<>>
    /\ callbacks' = <<>>
    /\ UNCHANGED <<deliveries, fanouts, lastFanout, othersOfNotify>>

\* a handler that drops a change of a row it has already handled
handleNotificationChange_Dedup(id, changed) ==
    /\ Len(deliveries) < MaxEvents
    /\ LET seen == \E d \in 1..Len(deliveries) :
                       deliveries[d].id = id /\ deliveries[d].changed
       IN  deliveries' = Append(deliveries,
                                [id |-> id, changed |-> changed,
                                 query |-> IF changed /\ ~seen THEN "pending"
                                           ELSE "none"])
    /\ UNCHANGED <<callbacks, fanouts, lastFanout, othersOfNotify>>

\* the channel hands an UPDATE payload to handleNotificationChange, which
\* runs up to its await: it returns when notification_status did not
\* change, otherwise it issues the enrichment query
handleNotificationChange(id, changed) ==
    /\ Len(deliveries) < MaxEvents
    /\ deliveries' = Append(deliveries,
                            [id |-> id, changed |-> changed,
                             query |-> IF changed THEN "pending" ELSE "none"])
    /\ UNCHANGED <<callbacks, fanouts, lastFanout, othersOfNotify>>

\* the enrichment query of delivery d resolves and the handler runs to its
\* end: it returns on `error`, otherwise it builds the data and fans out
EnrichmentResolved(d) ==
    /\ deliveries[d].query = "pending"
    /\ \E o \in QueryOutcomes :
         IF o = "failed"
         THEN /\ deliveries' = [deliveries EXCEPT ![d].query = "error"]
              /\ UNCHANGED <<callbacks, fanouts, lastFanout>>
         ELSE /\ deliveries' = [deliveries EXCEPT ![d].query = "ok"]
              /\ callbacks' = forEach(callbacks).callbacks
              /\ fanouts' = Append(fanouts,
                                   [d |-> d, calls |-> Len(forEach(callbacks).invoked)])
              /\ lastFanout' = [list |-> callbacks,
                                invoked |-> forEach(callbacks).invoked,
                                escaped |-> forEach(callbacks).escaped]
    /\ UNCHANGED othersOfNotify

\* a push notification that carries data.visitor_log_id is received:
\* handlePushNotification builds the data and fans out
handlePushNotification ==
    /\ callbacks' = forEach(callbacks).callbacks
    /\ lastFanout' = [list |-> callbacks,
                      invoked |-> forEach(callbacks).invoked,
                      escaped |-> forEach(callbacks).escaped]
    /\ UNCHANGED <<deliveries, fanouts, othersOfNotify>>

InitNotify ==
    /\ NsInit
    /\ WaIdle
    /\ RegIdle
    /\ CpIdle
    /\ ChIdle
    /\ VoteIdle
    /\ CardIdle

NextNotify ==
    \/ \E c \in Callbacks : addCallback(c)
    \/ \E c \in Callbacks : removeCallback(c)
    \/ clearCallbacks
    \/ \E id \in EventIds, changed \in BOOLEAN : handleNotificationChange(id, changed)
    \/ \E d \in 1..Len(deliveries) : EnrichmentResolved(d)
    \/ handlePushNotification

SpecNotify == InitNotify /\ [][NextNotify]_vars

-----------------------------------------------------------------------------
(* Properties of NotificationService (SpecNotify)                          *)

\* the fan-outs performed for delivery d
FanoutsOf(d) == {i \in 1..Len(fanouts) : fanouts[i].d = d}

\* C18: the callbacks are invoked for a delivered event if and only if its
\* notification_status changed and its enrichment query returned without
\* error; then every callback in the list at fan-out time is invoked exactly
\* once, in registration order; otherwise none is.
C18_FanOutToEveryCallback ==
    /\ \A d \in 1..Len(deliveries) :
          /\ Cardinality(FanoutsOf(d)) <= 1
          /\ FanoutsOf(d) # {} <=>
                (deliveries[d].changed /\ deliveries[d].query = "ok")
    /\ lastFanout.invoked = lastFanout.list

\* position of the fan-out of delivery d in the order the fan-outs ran
FanoutPosition(d) == CHOOSE i \in FanoutsOf(d) : TRUE

\* C19: the listener keeps no record of the events it has handled: every
\* delivery whose notification_status changed issues its own enrichment
\* query, whatever was delivered before, and every delivery whose query
\* answered is fanned out, so a row delivered twice is fanned out twice and
\* the fan-outs run in the order the queries answer.
C19_NoOrderingNoDedup ==
    \A d \in 1..Len(deliveries) :
        /\ deliveries[d].changed => deliveries[d].query # "none"
        /\ deliveries[d].query = "ok" => Cardinality(FanoutsOf(d)) = 1

C19_Witness ==
    \E d1, d2 \in 1..Len(deliveries) :
        /\ d1 < d2
        /\ deliveries[d1].id = deliveries[d2].id
        /\ FanoutsOf(d1) # {} /\ FanoutsOf(d2) # {}
        /\ FanoutPosition(d2) < FanoutPosition(d1)
        /\ fanouts[FanoutPosition(d1)].calls > 0
        /\ fanouts[FanoutPosition(d2)].calls > 0

-----------------------------------------------------------------------------
(* NotificationService: startListening, stopListening and the channel      *)

\* a channel of the realtime client: joining after subscribe(), joined once
\* the server confirmed, errored after CHANNEL_ERROR or TIMED_OUT (the client
\* rejoins), closed once removed
ChannelStates == {"joining", "joined", "errored", "closed"}

\* the statuses the subscribe callback receives while the channel is live
LiveStatuses == {"SUBSCRIBED", "CHANNEL_ERROR", "TIMED_OUT"}

\* supabase.channel(...) hands out a new channel object on every call, and
\* the subscribe callback of every live channel writes this.isConnected

\* channels that were created and not removed
Live == {c \in 1..Len(channels) : channels[c] # "closed"}

\* channels that are subscribed and not removed
Subscribed == {c \in 1..Len(channels) : channels[c] = "joined"}

\* this.channel = null
NoChannel == 0

ChInit ==
    /\ channel = NoChannel
    /\ isConnected = FALSE
    /\ channels = <<>>
    /\ stopping = NoChannel
    /\ lastStart = "none"
    /\ stopped = FALSE

\* startListening: returns when isConnected, otherwise creates a channel,
\* subscribes it and stores it in this.channel
startListening ==
    /\ stopped' = FALSE
    /\ IF isConnected
       THEN /\ lastStart' = "already_active"
            /\ UNCHANGED <<channel, channels>>
       ELSE /\ Len(channels) < MaxChannels
            /\ channels' = Append(channels, "joining")
            /\ channel' = Len(channels) + 1
            /\ lastStart' = "created"
    /\ UNCHANGED <<isConnected, stopping, othersOfListen>>

\* the subscribe callback of a live channel: isConnected = status === 'SUBSCRIBED'
SubscriptionStatus(c, status) ==
    /\ c \in Live
    /\ \/ status = "SUBSCRIBED" /\ channels[c] \in {"joining", "errored"}
       \/ status = "CHANNEL_ERROR" /\ channels[c] \in {"joining", "joined"}
       \/ status = "TIMED_OUT" /\ channels[c] = "joining"
    /\ channels' = [channels EXCEPT ![c] =
                        IF status = "SUBSCRIBED" THEN "joined" ELSE "errored"]
    /\ isConnected' = (status = "SUBSCRIBED")
    /\ UNCHANGED <<channel, stopping, lastStart, stopped, othersOfListen>>

\* stopListening up to its await: supabase.removeChannel(this.channel)
stopListening ==
    /\ stopping = NoChannel
    /\ channel # NoChannel
    /\ stopping' = channel
    /\ UNCHANGED <<channel, isConnected, channels, lastStart, stopped, othersOfListen>>

\* removeChannel resolves (the channel is closed, its callback got CLOSED)
\* and stopListening runs on: this.channel = null; this.isConnected = false
RemoveChannelResolved ==
    /\ stopping # NoChannel
    /\ channels' = [channels EXCEPT ![stopping] = "closed"]
    /\ channel' = NoChannel
    /\ isConnected' = FALSE
    /\ stopping' = NoChannel
    /\ stopped' = TRUE
    /\ UNCHANGED <<lastStart, othersOfListen>>

InitListen ==
    /\ ChInit
    /\ WaIdle
    /\ RegIdle
    /\ CpIdle
    /\ NsIdle
    /\ VoteIdle
    /\ CardIdle

NextListen ==
    \/ startListening
    \/ \E c \in 1..MaxChannels, status \in LiveStatuses : SubscriptionStatus(c, status)
    \/ stopListening
    \/ RemoveChannelResolved

SpecListen == InitListen /\ [][NextListen]_vars

-----------------------------------------------------------------------------
(* Properties of the channel of NotificationService (SpecListen)           *)

\* C25: at most one channel created by the service is subscribed and not
\* yet removed, and a startListening call made while the service is active
\* creates no channel.
C25_AtMostOneSubscribedChannel ==
    /\ Cardinality(Subscribed) <= 1
    /\ lastStart = "already_active" => channel # NoChannel

\* C26: isServiceConnected() returning true implies that the service holds
\* a channel, and after stopListening completed and before the next
\* startListening the service reports not connected.
C26_ConnectedImpliesChannel ==
    /\ isConnected => channel # NoChannel
    /\ stopped => ~isConnected

-----------------------------------------------------------------------------
(* AvisosTab: fetchPolls and handleVote of one user in one poll            *)

\* the devices on which the user has the polls tab open
Screens == {"phone", "tablet"}
Options == {"opt1", "opt2"}
PollStates == {"active", "expired", "inactive"}

\* the poll is not in the list `polls` (polls.find returns undefined)
NoPoll == [present |-> FALSE, user_voted |-> FALSE, is_active |-> FALSE]

NoVoteCall ==
    [pc |-> "idle", option |-> "none", user |-> FALSE, cached |-> NoPoll,
     exit |-> "none"]

\* .maybeSingle(): data is the row when the query was answered with exactly
\* one row, null otherwise (no row, several rows, or a failed query)
maybeSingle(rows, o) == o = "answered" /\ Len(rows) = 1

\* what fetchPolls hands to setPolls: the polls query keeps is_active rows
\* only, user_voted is !!userVoteData, is_active is false once expired; a
\* failed polls query leaves the list as it is
Fetched(s, pollsQuery, voteQuery) ==
    IF pollsQuery = "failed" THEN polls[s]
    ELSE IF pollState = "inactive" THEN NoPoll
    ELSE [present |-> TRUE,
          user_voted |-> maybeSingle(poll_votes, voteQuery),
          is_active |-> (pollState = "active")]

VoteInit ==
    /\ poll_votes = <<>>
    /\ pollState = "active"
    /\ uniqueVotes \in BOOLEAN
    /\ polls = [s \in Screens |-> NoPoll]
    /\ votingPollId = [s \in Screens |-> "null"]
    /\ voteCall = [s \in Screens |-> NoVoteCall]
    /\ voteCalls = 0

\* fetchPolls on mount, on refresh or from a realtime subscription
fetchPolls(s) ==
    /\ voteCall[s].pc # "fetch"
    /\ \E pollsQuery \in QueryOutcomes, voteQuery \in QueryOutcomes :
         polls' = [polls EXCEPT ![s] = Fetched(s, pollsQuery, voteQuery)]
    /\ UNCHANGED <<poll_votes, pollState, uniqueVotes, votingPollId, voteCall,
                   voteCalls, othersOfVote>>

\* the poll expires or is closed
PollCloses ==
    /\ \E next \in PollStates \ {"active"} :
         /\ pollState \in {"active", "expired"}
         /\ pollState # next
         /\ pollState' = next
    /\ UNCHANGED <<poll_votes, uniqueVotes, polls, votingPollId, voteCall,
                   voteCalls, othersOfVote>>

\* a handleVote that does not look at the cached user_voted
handleVote_IgnoresCache(s, optionId, authenticated) ==
    /\ voteCalls < MaxVoteCalls
    /\ voteCalls' = voteCalls + 1
    /\ IF ~authenticated \/ votingPollId[s] # "null"
       THEN UNCHANGED <<voteCall, votingPollId>>
       ELSE LET poll == polls[s]
                exit == IF ~poll.present THEN "no_poll"
                        ELSE IF ~poll.is_active THEN "inactive"
                        ELSE "none"
            IN  IF exit # "none"
                THEN /\ voteCall' = [voteCall EXCEPT ![s] =
                                        [NoVoteCall EXCEPT !.exit = exit]]
                     /\ votingPollId' = votingPollId
                ELSE /\ voteCall' = [voteCall EXCEPT ![s] =
                                        [pc |-> "insert", option |-> optionId,
                                         user |-> authenticated,
                                         cached |-> poll, exit |-> "none"]]
                     /\ votingPollId' = [votingPollId EXCEPT ![s] = "poll"]
    /\ UNCHANGED <<poll_votes, pollState, uniqueVotes, polls, othersOfVote>>

\* handleVote(pollId, optionId) up to its first await: the guard on user.id
\* and votingPollId (a plain return), then setVotingPollId and the checks
\* against the cached poll; a return inside the try runs the finally block
\* (setVotingPollId(null))
handleVote(s, optionId, authenticated) ==
    /\ voteCalls < MaxVoteCalls
    /\ voteCalls' = voteCalls + 1
    /\ IF ~authenticated \/ votingPollId[s] # "null"
       THEN UNCHANGED <<voteCall, votingPollId>>
       ELSE LET poll == polls[s]
                exit == IF ~poll.present THEN "no_poll"
                        ELSE IF poll.user_voted THEN "already_voted"
                        ELSE IF ~poll.is_active THEN "inactive"
                        ELSE "none"
            IN  IF exit # "none"
                THEN /\ voteCall' = [voteCall EXCEPT ![s] =
                                        [NoVoteCall EXCEPT !.exit = exit]]
                     /\ votingPollId' = votingPollId
                ELSE /\ voteCall' = [voteCall EXCEPT ![s] =
                                        [pc |-> "insert", option |-> optionId,
                                         user |-> authenticated,
                                         cached |-> poll, exit |-> "none"]]
                     /\ votingPollId' = [votingPollId EXCEPT ![s] = "poll"]
    /\ UNCHANGED <<poll_votes, pollState, uniqueVotes, polls, othersOfVote>>

\* what the awaited insert can do: answer, answer with voteError, or throw
InsertOutcomes == QueryOutcomes \cup {"threw"}

\* a handleVote whose return on voteError skips the reset of votingPollId
InsertVote_NoFinally(s) ==
    /\ voteCall[s].pc = "insert"
    /\ \E o \in InsertOutcomes :
         IF o # "answered" \/ (uniqueVotes /\ poll_votes # <<>>)
         THEN /\ voteCall' = [voteCall EXCEPT ![s] =
                                 [NoVoteCall EXCEPT !.exit =
                                     IF o = "threw" THEN "exception"
                                     ELSE "insert_error"]]
              /\ votingPollId' = votingPollId
              /\ poll_votes' = poll_votes
         ELSE /\ voteCall' = [voteCall EXCEPT ![s].pc = "fetch",
                                              ![s].cached = NoPoll]
              /\ votingPollId' = votingPollId
              /\ poll_votes' = Append(poll_votes,
                                      [poll_option_id |-> voteCall[s].option,
                                       screen |-> s,
                                       user |-> voteCall[s].user,
                                       cached |-> voteCall[s].cached,
                                       rowsBefore |-> Len(poll_votes)])
    /\ UNCHANGED <<pollState, uniqueVotes, polls, voteCalls, othersOfVote>>

\* the insert into poll_votes resolves: on voteError, or when it throws, the
\* call leaves through finally; otherwise it goes on to `await fetchPolls()`
InsertVote(s) ==
    /\ voteCall[s].pc = "insert"
    /\ \E o \in InsertOutcomes :
         IF o # "answered" \/ (uniqueVotes /\ poll_votes # <<>>)
         THEN /\ voteCall' = [voteCall EXCEPT ![s] =
                                 [NoVoteCall EXCEPT !.exit =
                                     IF o = "threw" THEN "exception"
                                     ELSE "insert_error"]]
              /\ votingPollId' = [votingPollId EXCEPT ![s] = "null"]
              /\ poll_votes' = poll_votes
         ELSE /\ voteCall' = [voteCall EXCEPT ![s].pc = "fetch",
                                              ![s].cached = NoPoll]
              /\ votingPollId' = votingPollId
              /\ poll_votes' = Append(poll_votes,
                                      [poll_option_id |-> voteCall[s].option,
                                       screen |-> s,
                                       user |-> voteCall[s].user,
                                       cached |-> voteCall[s].cached,
                                       rowsBefore |-> Len(poll_votes)])
    /\ UNCHANGED <<pollState, uniqueVotes, polls, voteCalls, othersOfVote>>

\* `await fetchPolls()` at the end of handleVote, then finally
RefreshAfterVote(s) ==
    /\ voteCall[s].pc = "fetch"
    /\ \E pollsQuery \in QueryOutcomes, voteQuery \in QueryOutcomes :
         polls' = [polls EXCEPT ![s] = Fetched(s, pollsQuery, voteQuery)]
    /\ voteCall' = [voteCall EXCEPT ![s] = [NoVoteCall EXCEPT !.exit = "success"]]
    /\ votingPollId' = [votingPollId EXCEPT ![s] = "null"]
    /\ UNCHANGED <<poll_votes, pollState, uniqueVotes, voteCalls, othersOfVote>>

InitVote ==
    /\ VoteInit
    /\ WaIdle
    /\ RegIdle
    /\ CpIdle
    /\ NsIdle
    /\ ChIdle
    /\ CardIdle

NextVote ==
    \/ PollCloses
    \/ \E s \in Screens :
          \/ fetchPolls(s)
          \/ \E optionId \in Options, authenticated \in BOOLEAN :
                handleVote(s, optionId, authenticated)
          \/ InsertVote(s)
          \/ RefreshAfterVote(s)

SpecVote == InitVote /\ [][NextVote]_vars

-----------------------------------------------------------------------------
(* Properties of handleVote (SpecVote)                                     *)

\* C20: the only thing handleVote does against a second vote is the test of
\* the cached poll: every row of poll_votes was inserted by a call whose
\* cached poll had user_voted = false (and was active), whatever rows the
\* table held at that moment; a second row is kept out only by a store that
\* refuses it.
C20_OnlyTheCacheIsChecked ==
    /\ \A i \in 1..Len(poll_votes) :
          /\ poll_votes[i].cached.present
          /\ ~poll_votes[i].cached.user_voted
          /\ poll_votes[i].rowsBefore = i - 1
    /\ uniqueVotes => Len(poll_votes) <= 1

C20_Witness ==
    /\ ~uniqueVotes
    /\ \E i, j \in 1..Len(poll_votes) :
          /\ i < j
          /\ poll_votes[i].screen # poll_votes[j].screen
          /\ ~poll_votes[j].cached.user_voted
          /\ poll_votes[j].rowsBefore >= 1

\* a handleVote call is between its insert request and its finally block
InFlight(s) == voteCall[s].pc \in {"insert", "fetch"}

\* C28: a row is inserted only by a call made by an authenticated user whose
\* cached poll was in the list, not voted and active, with no other vote in
\* flight on the screen; and votingPollId is set exactly while a call is in
\* flight, so it is null again after every exit (early return, insert
\* error, exception, success).
C28_InsertGuardedAndVotingReset ==
    /\ \A i \in 1..Len(poll_votes) :
          /\ poll_votes[i].user
          /\ poll_votes[i].cached.present
          /\ ~poll_votes[i].cached.user_voted
          /\ poll_votes[i].cached.is_active
    /\ \A s \in Screens :
          /\ votingPollId[s] # "null" <=> InFlight(s)
          /\ voteCall[s].exit # "none" => (~InFlight(s) /\ votingPollId[s] = "null")
          /\ Cardinality({i \in 1..Len(poll_votes) : poll_votes[i].screen = s}) <= voteCalls

C28_Witness ==
    \E s, t \in Screens :
        /\ voteCall[s].exit \in {"insert_error", "exception"}
        /\ votingPollId[s] = "null"
        /\ voteCall[t].exit = "success"
        /\ votingPollId[t] = "null"
        /\ \E i \in 1..Len(poll_votes) : poll_votes[i].screen = t

-----------------------------------------------------------------------------
(* PendingNotificationCard: the response handlers of one card              *)

EntryTypes == {"visitor", "delivery", "vehicle"}
Destinations == {"portaria", "elevador", "apartamento"}

\* how the promise returned by onRespond settles: resolved with success
\* true, resolved with success false, or rejected
RespondOutcomes == {"success", "failure", "rejected"}

CardInit ==
    /\ entry_type \in EntryTypes
    /\ responding = FALSE
    /\ showRejectModal = FALSE
    /\ showDeliveryModal = FALSE
    /\ rejectReason = ""
    /\ pending = "none"
    /\ attempts = 0

\* the approve button (disabled while responding): a delivery opens the
\* destination modal, anything else calls onRespond
handleApprove ==
    /\ ~responding
    /\ IF entry_type = "delivery"
       THEN /\ showDeliveryModal' = TRUE
            /\ UNCHANGED <<responding, pending, attempts>>
       ELSE /\ attempts < MaxAttempts
            /\ responding' = TRUE
            /\ pending' = "approve"
            /\ attempts' = attempts + 1
            /\ UNCHANGED showDeliveryModal
    /\ UNCHANGED <<entry_type, showRejectModal, rejectReason, othersOfCard>>

\* the reject button (disabled while responding)
handleReject ==
    /\ ~responding
    /\ showRejectModal' = TRUE
    /\ UNCHANGED <<entry_type, responding, showDeliveryModal, rejectReason,
                   pending, attempts, othersOfCard>>

\* the text input of the reject modal
setRejectReason(text) ==
    /\ showRejectModal
    /\ rejectReason' = text
    /\ UNCHANGED <<entry_type, responding, showRejectModal, showDeliveryModal,
                   pending, attempts, othersOfCard>>

\* the confirm button of the reject modal (disabled while responding), up to
\* its await
confirmReject ==
    /\ showRejectModal
    /\ ~responding
    /\ attempts < MaxAttempts
    /\ responding' = TRUE
    /\ pending' = "reject"
    /\ attempts' = attempts + 1
    /\ UNCHANGED <<entry_type, showRejectModal, showDeliveryModal, rejectReason,
                   othersOfCard>>

\* a destination button of the delivery modal (disabled while responding),
\* up to its await
handleDeliveryDestination(destination) ==
    /\ showDeliveryModal
    /\ ~responding
    /\ attempts < MaxAttempts
    /\ responding' = TRUE
    /\ pending' = "delivery"
    /\ attempts' = attempts + 1
    /\ UNCHANGED <<entry_type, showRejectModal, showDeliveryModal, rejectReason,
                   othersOfCard>>

\* the cancel button or onRequestClose of a modal
CloseModal ==
    /\ showRejectModal \/ showDeliveryModal
    /\ \/ showRejectModal /\ showRejectModal' = FALSE /\ UNCHANGED showDeliveryModal
       \/ showDeliveryModal /\ showDeliveryModal' = FALSE /\ UNCHANGED showRejectModal
    /\ UNCHANGED <<entry_type, responding, rejectReason, pending, attempts,
                   othersOfCard>>

\* the promise of onRespond settles and the handler runs on: a rejection
\* leaves the handler at the await; otherwise the alert on !result.success,
\* the modal of the handler is closed and setResponding(false)
OnRespondSettled(outcome) ==
    /\ pending # "none"
    /\ pending' = "none"
    /\ IF outcome = "rejected"
       THEN UNCHANGED <<responding, showRejectModal, showDeliveryModal, rejectReason>>
       ELSE /\ responding' = FALSE
            /\ showRejectModal' = IF pending = "reject" THEN FALSE ELSE showRejectModal
            /\ showDeliveryModal' = IF pending = "delivery" THEN FALSE
                                    ELSE showDeliveryModal
            /\ rejectReason' = IF pending = "reject" THEN "" ELSE rejectReason
    /\ UNCHANGED <<entry_type, attempts, othersOfCard>>

InitCard ==
    /\ CardInit
    /\ WaIdle
    /\ RegIdle
    /\ CpIdle
    /\ NsIdle
    /\ ChIdle
    /\ VoteIdle

NextCard ==
    \/ handleApprove
    \/ handleReject
    \/ \E text \in {"", "motivo"} : setRejectReason(text)
    \/ confirmReject
    \/ \E destination \in Destinations : handleDeliveryDestination(destination)
    \/ CloseModal
    \/ \E outcome \in RespondOutcomes : OnRespondSettled(outcome)

SpecCard == InitCard /\ [][NextCard]_vars

-----------------------------------------------------------------------------
(* Properties of PendingNotificationCard (SpecCard)                        *)

\* C29: every response attempt that set responding to true has set it back
\* to false once its onRespond call has settled, however it settled: with no
\* call pending, responding is false and the buttons are enabled.
C29_RespondingResetAfterAttempt ==
    pending = "none" => ~responding

====
